---- MODULE Spec2Model ----
(***************************************************************************)
(* GNSS spoofing detection and autonomous switch.                          *)
(*                                                                         *)
(*   SpeedDetector   detector_speed.py      (GGA fixes -> speed verdicts)   *)
(*   SNRDetector     detector_snr.py        (GSV sentences -> PRN/SNR)      *)
(*   gps_reader,     Final_Map_Project.py   (arbitration, Mode, display,    *)
(*   gps_thread                              autonomous route)              *)
(*                                                                         *)
(* Units.  A position is <<north, east>> in whole metres from the crossing *)
(* of the equator and the Greenwich meridian, so latitude 0 is north = 0   *)
(* and longitude 0 is east = 0.  A length is kept exact as Root(n), the    *)
(* length whose square is n.  Times are integer seconds.  A speed dist/dt  *)
(* is kept as the exact quotient <<dist, dt>>.  An optional value (Python  *)
(* None) is the empty tuple, a present value v is the one-element tuple    *)
(* <<v>>.                                                                  *)
(***************************************************************************)
EXTENDS Integers, Sequences, FiniteSets, TLC

\* ------------------------------------------------------------ constants
\* detector_speed.py
STABILIZATION_SPEED == 8
SPOOFING_SPEED_THRESHOLD == 6
STABILIZATION_COUNT == 4
DISTANCE_JUMP_THRESHOLD == 30

\* Final_Map_Project.py
SMOOTHING_WINDOW == 5
MAX_DISPLAY_JUMP_METERS == 80
STABILIZATION_DURATION == 30

\* ------------------------------------------------------------ bounds
\* The wall clock advances by ClockStep seconds at a time, up to MaxClock.
ClockStep == 30
MaxClock == 90
\* Latest GGA timestamp of the scenario environment.
MaxStamp == 10

\* ------------------------------------------------------------ values
None == << >>
Some(v) == << v >>
Abs(x) == IF x < 0 THEN -x ELSE x

\* ------------------------------------------------------------ inputs
\* A position is <<north, east>>: metres north of the equator and metres east
\* of the Greenwich meridian, next to their crossing, where msg.latitude = 0
\* is north = 0 and msg.longitude = 0 is east = 0.  The receiver travels
\* along the meridian TrackLon metres east; Positions are the latitudes a fix
\* can report on it.
Positions == {0, 100, 130, 210}
TrackLon == 200
\* GGA time-of-day stamps (seconds).
Times == {0, 1, 5, 20}

\* A GGA sentence as pynmea2 parses it: ok is FALSE when parsing (or int() of
\* the quality field) raises; pos is msg.latitude and lon msg.longitude, in
\* metres; ts is None when the time field is empty.
FixAt(q, p, l, t) == [ ok |-> TRUE, qual |-> q, pos |-> p, lon |-> l, ts |-> t ]
Fix(q, p, t) == FixAt(q, p, TrackLon, t)
Malformed == [ ok |-> FALSE, qual |-> 0, pos |-> 0, lon |-> 0, ts |-> None ]
\* Line 45: current_position = (msg.latitude, msg.longitude).
PositionOf(line) == << line.pos, line.lon >>
NoFixLine == Fix(0, 0, None)

\* Every sentence, for the detector taken alone: the fixes on the track, and
\* fixes off it, on the Greenwich meridian, a diagonal away from the others.
GGALines ==
    { Fix(q, p, t) : q \in {0, 1}, p \in Positions,
                     t \in {Some(x) : x \in Times} \cup {None} }
    \cup { FixAt(1, 100, 0, Some(t)) : t \in Times }
    \cup { Malformed }

\* ------------------------------------------------------------ SpeedDetector
SpeedDetectorInit ==
    [ last_position |-> None,
      last_time |-> None,
      stabilized |-> FALSE,
      stabilization_counter |-> 0,
      spoofing_phase |-> FALSE,
      spoofed_stabilization_counter |-> 0,
      spoof_confirmed |-> FALSE ]

\* A length in metres is kept exact as Root(n), the length whose square is n:
\* Root(10000) is 100 m, Root(130000) is 360.555... m.  The comparisons with
\* a whole number of metres m > 0 divide instead of squaring m.
Root(n) == [ sq |-> n ]
LenLt(d, m) == d.sq \div m < m
LenGt(d, m) == d.sq \div m > m \/ (d.sq \div m = m /\ d.sq % m # 0)

\* geopy.distance.geodesic(a, b).meters: over these few hundred metres the
\* length of the straight segment between the two positions.
Geodesic(a, b) ==
    Root((a[1] - b[1]) * (a[1] - b[1]) + (a[2] - b[2]) * (a[2] - b[2]))

\* speed = dist / dt if dt > 0 else 0, as the exact quotient <<dist, dt>> of
\* a length and a number of seconds.
SpeedOf_UnitDt(dist, dt) == IF dt > 0 THEN << dist, dt >> ELSE << dist, 1 >>
SpeedOf(dist, dt) == IF dt > 0 THEN << dist, dt >> ELSE << Root(0), 1 >>
SpeedLt(speed, k) == LenLt(speed[1], k * speed[2])
SpeedGt(speed, k) == LenGt(speed[1], k * speed[2])

\* Line 49: datetime.utcnow().date().  The wall clock now counts seconds from
\* start_time, which is UtcAtStart seconds into a UTC day (23:58:30): the
\* date changes while the program runs.
SecondsPerDay == 86400
UtcAtStart == 86310
UtcDay(now) == (UtcAtStart + now) \div SecondsPerDay
\* datetime.combine(date, msg.timestamp), in seconds from the midnight that
\* opens the day of start_time.
Combine(ts, now) == SecondsPerDay * UtcDay(now) + ts

\* The time block of process.  A stored time is <<kind, seconds>>: kind "utc"
\* for a datetime built from the sentence, "wall" for a time.time() float.
\* Subtracting a float from a datetime (or the reverse) raises TypeError: in
\* the try block that is caught and the wall clock is used; in the except
\* block it escapes to the outer handler (raises |-> TRUE).
CurrentTime_NeverRaises(last_time, ts, now) ==
    IF ts # None /\ (last_time = None \/ last_time[1] = "utc")
    THEN [ raises |-> FALSE,
           current_time |-> << "utc", Combine(ts[1], now) >>,
           dt |-> IF last_time # None THEN Combine(ts[1], now) - last_time[2]
                                      ELSE 1 ]
    ELSE [ raises |-> FALSE,
           current_time |-> << "wall", now >>,
           dt |-> IF last_time # None THEN now - last_time[2] ELSE 1 ]
CurrentTime(last_time, ts, now) ==
    IF ts # None /\ (last_time = None \/ last_time[1] = "utc")
    THEN [ raises |-> FALSE,
           current_time |-> << "utc", Combine(ts[1], now) >>,
           dt |-> IF last_time # None THEN Combine(ts[1], now) - last_time[2]
                                      ELSE 1 ]
    ELSE IF last_time # None /\ last_time[1] = "utc"
    THEN [ raises |-> TRUE, current_time |-> None, dt |-> 0 ]
    ELSE [ raises |-> FALSE,
           current_time |-> << "wall", now >>,
           dt |-> IF last_time # None THEN now - last_time[2] ELSE 1 ]

Ret(self, status, value, detected) ==
    [ self |-> self,
      ret |-> [ status |-> status, value |-> value, detected |-> detected ] ]

\* Lines 94-99: store the fix as the reference and answer NORMAL.
UpdateReference_KeepsTime(self, current_position, current_time) ==
    Ret([ self EXCEPT !.last_position = Some(current_position) ],
        "NORMAL", None, FALSE)
UpdateReference(self, current_position, current_time) ==
    Ret([ self EXCEPT !.last_position = Some(current_position),
                      !.last_time = current_time ],
        "NORMAL", None, FALSE)

\* Lines 62-72: stabilisation phase.
Stabilizing_Late(self, speed) ==
    IF SpeedLt(speed, STABILIZATION_SPEED)
    THEN LET c == self.stabilization_counter + 1
         IN Ret([ self EXCEPT !.stabilization_counter = c,
                              !.stabilized = IF c > STABILIZATION_COUNT
                                             THEN TRUE ELSE @ ],
                "STABILIZING", speed, FALSE)
    ELSE Ret(self, "STABILIZING", speed, FALSE)
Stabilizing_AnswersNormal(self, speed) ==
    IF SpeedLt(speed, STABILIZATION_SPEED)
    THEN LET c == self.stabilization_counter + 1
         IN IF c >= STABILIZATION_COUNT
            THEN Ret([ self EXCEPT !.stabilization_counter = c, !.stabilized = TRUE ],
                     "NORMAL", None, FALSE)
            ELSE Ret([ self EXCEPT !.stabilization_counter = c ],
                     "STABILIZING", speed, FALSE)
    ELSE Ret(self, "STABILIZING", speed, FALSE)
Stabilizing(self, speed) ==
    IF SpeedLt(speed, STABILIZATION_SPEED)
    THEN LET c == self.stabilization_counter + 1
         IN Ret([ self EXCEPT !.stabilization_counter = c,
                              !.stabilized = IF c >= STABILIZATION_COUNT
                                             THEN TRUE ELSE @ ],
                "STABILIZING", speed, FALSE)
    ELSE Ret(self, "STABILIZING", speed, FALSE)

\* Line 76: the suspect trigger.
JumpDetected_Either(self, speed, dist) ==
    /\ ~self.spoofing_phase
    /\ (SpeedGt(speed, SPOOFING_SPEED_THRESHOLD) \/ LenGt(dist, DISTANCE_JUMP_THRESHOLD))
JumpDetected_Again(self, speed, dist) ==
    /\ SpeedGt(speed, SPOOFING_SPEED_THRESHOLD)
    /\ LenGt(dist, DISTANCE_JUMP_THRESHOLD)
JumpDetected(self, speed, dist) ==
    /\ ~self.spoofing_phase
    /\ SpeedGt(speed, SPOOFING_SPEED_THRESHOLD)
    /\ LenGt(dist, DISTANCE_JUMP_THRESHOLD)

\* Lines 84-92: analysis after the suspect trigger.
Analysis_OffByOne(self, speed) ==
    IF SpeedLt(speed, STABILIZATION_SPEED)
    THEN LET c == self.spoofed_stabilization_counter + 1
         IN IF c > STABILIZATION_COUNT
            THEN Ret([ self EXCEPT !.spoofed_stabilization_counter = c,
                                   !.spoof_confirmed = TRUE ],
                     "SPOOFING_CONFIRMED", speed, TRUE)
            ELSE Ret([ self EXCEPT !.spoofed_stabilization_counter = c ],
                     "SPOOFING_ANALYSIS", speed, FALSE)
    ELSE Ret(self, "SPOOFING_ANALYSIS", speed, FALSE)
Analysis_ClearsPhase(self, speed) ==
    IF SpeedLt(speed, STABILIZATION_SPEED)
    THEN LET c == self.spoofed_stabilization_counter + 1
         IN IF c >= STABILIZATION_COUNT
            THEN Ret([ self EXCEPT !.spoofed_stabilization_counter = c,
                                   !.spoofing_phase = FALSE,
                                   !.spoof_confirmed = TRUE ],
                     "SPOOFING_CONFIRMED", speed, TRUE)
            ELSE Ret([ self EXCEPT !.spoofed_stabilization_counter = c ],
                     "SPOOFING_ANALYSIS", speed, FALSE)
    ELSE Ret(self, "SPOOFING_ANALYSIS", speed, FALSE)
Analysis(self, speed) ==
    IF SpeedLt(speed, STABILIZATION_SPEED)
    THEN LET c == self.spoofed_stabilization_counter + 1
         IN IF c >= STABILIZATION_COUNT
            THEN Ret([ self EXCEPT !.spoofed_stabilization_counter = c,
                                   !.spoof_confirmed = TRUE ],
                     "SPOOFING_CONFIRMED", speed, TRUE)
            ELSE Ret([ self EXCEPT !.spoofed_stabilization_counter = c ],
                     "SPOOFING_ANALYSIS", speed, FALSE)
    ELSE Ret(self, "SPOOFING_ANALYSIS", speed, FALSE)

\* Line 41: int(msg.gps_qual) == 0.
NoFix_Never(line) == FALSE
NoFix(line) == line.qual = 0

\* A process whose analysis branch stays open after the confirmation.
process_ConfirmsAgain(self, line, now) ==
    IF ~line.ok THEN Ret(self, "ERROR", Some("exception"), FALSE)
    ELSE IF NoFix(line) THEN Ret(self, "NO FIX", None, FALSE)
    ELSE
      LET current_position == PositionOf(line)
          tm == CurrentTime(self.last_time, line.ts, now)
      IN IF tm.raises THEN Ret(self, "ERROR", Some("exception"), FALSE)
         ELSE IF self.last_position = None
         THEN UpdateReference(self, current_position, tm.current_time)
         ELSE
           LET dist == Geodesic(self.last_position[1], current_position)
               speed == SpeedOf(dist, tm.dt)
           IN IF ~self.stabilized THEN Stabilizing(self, speed)
              ELSE IF JumpDetected(self, speed, dist)
              THEN Ret([ self EXCEPT !.spoofing_phase = TRUE ],
                       "SPEED_ANOMALY", speed, FALSE)
              ELSE IF self.spoofing_phase
              THEN Analysis(self, speed)
              ELSE UpdateReference(self, current_position, tm.current_time)

\* SpeedDetector.process(nmea_line), with the wall clock it may read.
process(self, line, now) ==
    IF ~line.ok THEN Ret(self, "ERROR", Some("exception"), FALSE)
    ELSE IF NoFix(line) THEN Ret(self, "NO FIX", None, FALSE)
    ELSE
      LET current_position == PositionOf(line)
          tm == CurrentTime(self.last_time, line.ts, now)
      IN IF tm.raises THEN Ret(self, "ERROR", Some("exception"), FALSE)
         ELSE IF self.last_position = None
         THEN UpdateReference(self, current_position, tm.current_time)
         ELSE
           LET dist == Geodesic(self.last_position[1], current_position)
               speed == SpeedOf(dist, tm.dt)
           IN IF ~self.stabilized THEN Stabilizing(self, speed)
              ELSE IF JumpDetected(self, speed, dist)
              THEN Ret([ self EXCEPT !.spoofing_phase = TRUE ],
                       "SPEED_ANOMALY", speed, FALSE)
              ELSE IF self.spoofing_phase /\ ~self.spoof_confirmed
              THEN Analysis(self, speed)
              ELSE UpdateReference(self, current_position, tm.current_time)


\* ------------------------------------------------------------ SNRDetector
\* detector_snr.py
SNR_JUMP_THRESHOLD == 6
NEW_PRNS_THRESHOLD == 4
DISAPPEARED_PRNS_THRESHOLD == 4
ANOMALY_CONFIRMATION_COUNT == 2
HISTORY_LENGTH == 3
INSTANT_SHOCK_THRESHOLD == 5
SNR_MIN_THRESHOLD == 23
MIN_SAT_FOR_ANALYSIS == 4
SNR_STABILIZATION_DURATION == 60

\* A Python dict is a function on its key set; {} is the empty function.
EmptyDict == << >>
Put(d, k, v) == [ x \in (DOMAIN d) \cup {k} |-> IF x = k THEN v ELSE d[x] ]

\* A GSV sentence is the tuple of its satellite slots <<prn, snr>>.  prn 0 is
\* an empty PRN field; snr NoSnr is an empty SNR field and BadSnr a field that
\* float() rejects.  ParseFails is a sentence pynmea2.parse rejects.
NoSnr == -1
BadSnr == -2
ParseFails == << << 0, BadSnr >> >>

SNRDetectorInit(t0) ==
    [ snr_history |-> EmptyDict,
      previous_avg_sats |-> EmptyDict,
      anomaly_counter |-> 0,
      stabilization_start_time |-> t0,
      all_sats |-> EmptyDict,
      filtered_sats |-> EmptyDict ]

\* Lines 84-92: the slots of one sentence, in order, into all_sats and
\* filtered_sats; a field float() rejects raises and ends the loop (line 93).
RECURSIVE FoldSlots(_, _, _)
FoldSlots(all, filt, slots) ==
    IF slots = << >> THEN [ all_sats |-> all, filtered_sats |-> filt ]
    ELSE LET prn == Head(slots)[1]
             snr == Head(slots)[2]
         IN IF prn = 0 \/ snr = NoSnr
            THEN FoldSlots(all, filt, Tail(slots))
            ELSE IF snr = BadSnr
            THEN [ all_sats |-> all, filtered_sats |-> filt ]
            ELSE FoldSlots(Put(all, prn, snr),
                           IF snr >= SNR_MIN_THRESHOLD
                           THEN Put(filt, prn, snr) ELSE filt,
                           Tail(slots))

\* deque(maxlen=HISTORY_LENGTH).append
DequeAppend_EvictsNewest(q, v) ==
    IF Len(q) >= HISTORY_LENGTH THEN Append(SubSeq(q, 1, Len(q) - 1), v) ELSE Append(q, v)
DequeAppend(q, v) ==
    IF Len(q) >= HISTORY_LENGTH THEN Append(Tail(q), v) ELSE Append(q, v)

\* update_snr_history(data)
update_snr_history(hist, data) ==
    [ p \in (DOMAIN hist) \cup (DOMAIN data) |->
        IF p \in DOMAIN data
        THEN DequeAppend(IF p \in DOMAIN hist THEN hist[p] ELSE << >>, data[p])
        ELSE hist[p] ]

\* Line 63: delta >= max(SNR_JUMP_THRESHOLD, 0.25 * prev).
IsJump_Either(prevSnr, currSnr) ==
    LET delta == Abs(currSnr - prevSnr)
    IN delta >= SNR_JUMP_THRESHOLD \/ 4 * delta >= prevSnr
IsJump(prevSnr, currSnr) ==
    LET delta == Abs(currSnr - prevSnr)
    IN delta >= SNR_JUMP_THRESHOLD /\ 4 * delta >= prevSnr

\* A comparison that asks for more than NEW_PRNS_THRESHOLD new PRNs.
compare_sat_data_NewStrict(prev, curr) ==
    LET new == (DOMAIN curr) \ (DOMAIN prev)
        snr_jumps == { p \in (DOMAIN curr) \cap (DOMAIN prev) : IsJump(prev[p], curr[p]) }
        c1 == IF Cardinality(new) > NEW_PRNS_THRESHOLD
              THEN << [ kind |-> "new", prns |-> new ] >> ELSE << >>
        c3 == IF snr_jumps # {}
              THEN << [ kind |-> "jumps", prns |-> snr_jumps ] >> ELSE << >>
    IN [ causes |-> c1 \o c3, spoof_now |-> FALSE ]

\* compare_sat_data(prev, curr): the causes, in the order they are appended,
\* and the instant-shock flag.
compare_sat_data(prev, curr) ==
    LET new == (DOMAIN curr) \ (DOMAIN prev)
        lost == (DOMAIN prev) \ (DOMAIN curr)
        snr_jumps == { p \in (DOMAIN curr) \cap (DOMAIN prev) : IsJump(prev[p], curr[p]) }
        spoof_now == /\ Cardinality(new) >= INSTANT_SHOCK_THRESHOLD
                     /\ Cardinality(lost) >= INSTANT_SHOCK_THRESHOLD
        c1 == IF Cardinality(new) >= NEW_PRNS_THRESHOLD
              THEN << [ kind |-> "new", prns |-> new ] >> ELSE << >>
        c2 == IF Cardinality(lost) >= DISAPPEARED_PRNS_THRESHOLD
              THEN << [ kind |-> "lost", prns |-> lost ] >> ELSE << >>
        c3 == IF snr_jumps # {}
              THEN << [ kind |-> "jumps", prns |-> snr_jumps ] >> ELSE << >>
        c4 == IF spoof_now THEN << [ kind |-> "shock", prns |-> {} ] >> ELSE << >>
    IN [ causes |-> c1 \o c2 \o c3 \o c4, spoof_now |-> spoof_now ]

SnrRet(self, status, causes, detected) ==
    [ self |-> self,
      ret |-> [ status |-> status, causes |-> causes, detected |-> detected ] ]

\* A comparison whose streak is never reset.
Compare_NeverResets(self) ==
    LET n == self.anomaly_counter + 1
    IN IF self.previous_avg_sats # EmptyDict /\ n >= ANOMALY_CONFIRMATION_COUNT
       THEN SnrRet([ self EXCEPT !.anomaly_counter = n,
                                 !.previous_avg_sats = self.filtered_sats ],
                   "SPOOFING_DETECTED", << [ kind |-> "new", prns |-> {} ] >>, TRUE)
       ELSE SnrRet([ self EXCEPT !.anomaly_counter = n,
                                 !.previous_avg_sats = self.filtered_sats ],
                   "NORMAL", << >>, FALSE)

\* A comparison that keeps the old baseline on an alert.
Compare_RollsBack(self) ==
    IF self.previous_avg_sats # EmptyDict
    THEN LET c == compare_sat_data(self.previous_avg_sats, self.filtered_sats)
             n == IF c.causes # << >> THEN self.anomaly_counter + 1 ELSE 0
         IN IF n >= ANOMALY_CONFIRMATION_COUNT \/ c.spoof_now
            THEN SnrRet([ self EXCEPT !.anomaly_counter = n ],
                        "SPOOFING_DETECTED", c.causes, TRUE)
            ELSE SnrRet([ self EXCEPT !.anomaly_counter = n,
                                      !.previous_avg_sats = self.filtered_sats ],
                        "NORMAL", << >>, FALSE)
    ELSE SnrRet([ self EXCEPT !.previous_avg_sats = self.filtered_sats ],
                "NORMAL", << >>, FALSE)

\* A comparison that concludes on the first anomalous cycle.
Compare_ConfirmsAtOnce(self) ==
    IF self.previous_avg_sats # EmptyDict
    THEN LET c == compare_sat_data(self.previous_avg_sats, self.filtered_sats)
             n == IF c.causes # << >> THEN self.anomaly_counter + 1 ELSE 0
         IN IF n >= 1 \/ c.spoof_now
            THEN SnrRet([ self EXCEPT !.anomaly_counter = n,
                                      !.previous_avg_sats = self.filtered_sats ],
                        "SPOOFING_DETECTED", c.causes, TRUE)
            ELSE SnrRet([ self EXCEPT !.anomaly_counter = n,
                                      !.previous_avg_sats = self.filtered_sats ],
                        "NORMAL", << >>, FALSE)
    ELSE SnrRet([ self EXCEPT !.previous_avg_sats = self.filtered_sats ],
                "NORMAL", << >>, FALSE)

\* A comparison that hands its causes back with NORMAL too.
Compare_ReportsCauses(self) ==
    IF self.previous_avg_sats # EmptyDict
    THEN LET c == compare_sat_data(self.previous_avg_sats, self.filtered_sats)
             n == IF c.causes # << >> THEN self.anomaly_counter + 1 ELSE 0
         IN IF n >= ANOMALY_CONFIRMATION_COUNT \/ c.spoof_now
            THEN SnrRet([ self EXCEPT !.anomaly_counter = n,
                                      !.previous_avg_sats = self.filtered_sats ],
                        "SPOOFING_DETECTED", c.causes, TRUE)
            ELSE SnrRet([ self EXCEPT !.anomaly_counter = n,
                                      !.previous_avg_sats = self.filtered_sats ],
                        "NORMAL", c.causes, FALSE)
    ELSE SnrRet([ self EXCEPT !.previous_avg_sats = self.filtered_sats ],
                "NORMAL", << >>, FALSE)

\* Lines 109-127, once the history is updated.
Compare(self) ==
    IF self.previous_avg_sats # EmptyDict
    THEN LET c == compare_sat_data(self.previous_avg_sats, self.filtered_sats)
             n == IF c.causes # << >> THEN self.anomaly_counter + 1 ELSE 0
         IN IF n >= ANOMALY_CONFIRMATION_COUNT \/ c.spoof_now
            THEN SnrRet([ self EXCEPT !.anomaly_counter = n,
                                      !.previous_avg_sats = self.filtered_sats ],
                        "SPOOFING_DETECTED", c.causes, TRUE)
            ELSE SnrRet([ self EXCEPT !.anomaly_counter = n,
                                      !.previous_avg_sats = self.filtered_sats ],
                        "NORMAL", << >>, FALSE)
    ELSE SnrRet([ self EXCEPT !.previous_avg_sats = self.filtered_sats ],
                "NORMAL", << >>, FALSE)

\* Variants of process_gsv_for_snr: one that stores the baseline during the
\* warm-up, one whose satellite-count test is "<=".
process_gsv_for_snr_WarmupSetsBaseline(self, slots, now) ==
    LET f == IF slots = ParseFails
             THEN [ all_sats |-> self.all_sats, filtered_sats |-> self.filtered_sats ]
             ELSE FoldSlots(self.all_sats, self.filtered_sats, slots)
        s1 == [ self EXCEPT !.all_sats = f.all_sats, !.filtered_sats = f.filtered_sats ]
        elapsed == now - self.stabilization_start_time
    IN IF elapsed < SNR_STABILIZATION_DURATION
       THEN SnrRet([ s1 EXCEPT !.previous_avg_sats = s1.filtered_sats ],
                   "STABILIZING", << >>, FALSE)
       ELSE IF Cardinality(DOMAIN s1.filtered_sats) < MIN_SAT_FOR_ANALYSIS
       THEN SnrRet(s1, "INSUFFICIENT_SATS", << >>, FALSE)
       ELSE Compare([ s1 EXCEPT !.snr_history =
                                    update_snr_history(s1.snr_history, s1.all_sats) ])
process_gsv_for_snr_AtMost(self, slots, now) ==
    LET f == IF slots = ParseFails
             THEN [ all_sats |-> self.all_sats, filtered_sats |-> self.filtered_sats ]
             ELSE FoldSlots(self.all_sats, self.filtered_sats, slots)
        s1 == [ self EXCEPT !.all_sats = f.all_sats, !.filtered_sats = f.filtered_sats ]
        elapsed == now - self.stabilization_start_time
    IN IF elapsed < SNR_STABILIZATION_DURATION
       THEN SnrRet(s1, "STABILIZING", << >>, FALSE)
       ELSE IF Cardinality(DOMAIN s1.filtered_sats) <= MIN_SAT_FOR_ANALYSIS
       THEN SnrRet(s1, "INSUFFICIENT_SATS", << >>, FALSE)
       ELSE Compare([ s1 EXCEPT !.snr_history =
                                    update_snr_history(s1.snr_history, s1.all_sats) ])

\* Two more variants: one that rebuilds both dicts from the sentence alone,
\* one without warm-up.
process_gsv_for_snr_FreshDicts(self, slots, now) ==
    LET f == IF slots = ParseFails
             THEN [ all_sats |-> EmptyDict, filtered_sats |-> EmptyDict ]
             ELSE FoldSlots(EmptyDict, EmptyDict, slots)
        s1 == [ self EXCEPT !.all_sats = f.all_sats, !.filtered_sats = f.filtered_sats ]
        elapsed == now - self.stabilization_start_time
    IN IF elapsed < SNR_STABILIZATION_DURATION
       THEN SnrRet(s1, "STABILIZING", << >>, FALSE)
       ELSE IF Cardinality(DOMAIN s1.filtered_sats) < MIN_SAT_FOR_ANALYSIS
       THEN SnrRet(s1, "INSUFFICIENT_SATS", << >>, FALSE)
       ELSE Compare([ s1 EXCEPT !.snr_history =
                                    update_snr_history(s1.snr_history, s1.all_sats) ])
process_gsv_for_snr_NoWarmup(self, slots, now) ==
    LET f == IF slots = ParseFails
             THEN [ all_sats |-> self.all_sats, filtered_sats |-> self.filtered_sats ]
             ELSE FoldSlots(self.all_sats, self.filtered_sats, slots)
        s1 == [ self EXCEPT !.all_sats = f.all_sats, !.filtered_sats = f.filtered_sats ]
    IN IF Cardinality(DOMAIN s1.filtered_sats) < MIN_SAT_FOR_ANALYSIS
       THEN SnrRet(s1, "INSUFFICIENT_SATS", << >>, FALSE)
       ELSE Compare([ s1 EXCEPT !.snr_history =
                                    update_snr_history(s1.snr_history, s1.all_sats) ])

\* SNRDetector.process_gsv_for_snr(line), with the wall clock it reads.
process_gsv_for_snr(self, slots, now) ==
    LET f == IF slots = ParseFails
             THEN [ all_sats |-> self.all_sats, filtered_sats |-> self.filtered_sats ]
             ELSE FoldSlots(self.all_sats, self.filtered_sats, slots)
        s1 == [ self EXCEPT !.all_sats = f.all_sats,
                            !.filtered_sats = f.filtered_sats ]
        elapsed == now - self.stabilization_start_time
    IN IF elapsed < SNR_STABILIZATION_DURATION
       THEN SnrRet(s1, "STABILIZING", << >>, FALSE)
       ELSE IF Cardinality(DOMAIN s1.filtered_sats) < MIN_SAT_FOR_ANALYSIS
       THEN SnrRet(s1, "INSUFFICIENT_SATS", << >>, FALSE)
       ELSE Compare([ s1 EXCEPT !.snr_history =
                          update_snr_history(s1.snr_history, s1.all_sats) ])

\* ------------------------------------------------------------ Final_Map_Project
\* start_time (line 31) is the origin of the wall clock.
start_time == 0

\* The road network osmnx loads: two edges, each the stretch <<south, north>>
\* of the track it covers.  The first is a street that crosses the track at
\* 100 m, the second a road that runs along it from 300 m to 400 m.  A
\* displayed coordinate is its latitude, every snapped point having the
\* longitude of the track.
RoadEdges == << << 100, 100 >>, << 300, 400 >> >>
\* What osmnx does for one fix: it answers, graph_from_point raises (line
\* 268), or a later call raises (nearest_edges, get_edge_data, the
\* projection: lines 272-284).
OsmOutcomes == { "ok", "graph_raises", "edges_raise" }
\* Longest autonomous route generate_autonomous_path returns.
MaxRoute == 2

\* Lines 282-283: line_geom.interpolate(line_geom.project(Point(lon, lat))),
\* the point of the edge nearest to the fix.
Project(e, p) == IF p < e[1] THEN e[1] ELSE IF p > e[2] THEN e[2] ELSE p
\* Lines 272-284: the fix projected onto the nearest of the two edges (the
\* southern one when they are equally near).
Snap(p) ==
    LET south == Project(RoadEdges[1], p)
        north == Project(RoadEdges[2], p)
    IN IF Abs(south - p) <= Abs(north - p) THEN south ELSE north

\* deque(maxlen=SMOOTHING_WINDOW).append
BufferAppend(q, v) ==
    IF Len(q) >= SMOOTHING_WINDOW THEN Append(Tail(q), v) ELSE Append(q, v)

RECURSIVE SeqSum(_)
SeqSum(s) == IF s = << >> THEN 0 ELSE Head(s) + SeqSum(Tail(s))

\* Lines 289-291: the mean of the buffer, as the exact fraction <<sum, len>>.
Smoothed(buf) == << SeqSum(buf), Len(buf) >>

\* Lines 136-145: haversine measures on the sphere of radius R = 6371000 m,
\* where a metre of latitude at the equator (WGS-84 meridian radius
\* 6335439 m) counts 6371000 / 6335439 = 1.005613 m; 1075 / 1069 is that
\* ratio to seven digits.
HaversineNum == 1075
HaversineDen == 1069
\* haversine(a, b) > k for two fractions on the meridian.
HaversineGt(a, b, k) ==
    Abs(a[1] * b[2] - b[1] * a[2]) * HaversineNum > k * a[2] * b[2] * HaversineDen

\* Lines 293-302: anti-glitch mask, then emit the green point and keep it.
\* green is the 'position' event emitted, None when nothing is emitted.
Display_StoreBeforeMask(last_display_coord, smoothed) ==
    IF last_display_coord # None
       /\ HaversineGt(last_display_coord[1], smoothed, MAX_DISPLAY_JUMP_METERS)
    THEN [ last_display_coord |-> Some(smoothed), green |-> None ]
    ELSE [ last_display_coord |-> Some(smoothed), green |-> Some(smoothed) ]
Display(last_display_coord, smoothed) ==
    IF last_display_coord # None
       /\ HaversineGt(last_display_coord[1], smoothed, MAX_DISPLAY_JUMP_METERS)
    THEN [ last_display_coord |-> last_display_coord, green |-> None ]
    ELSE [ last_display_coord |-> Some(smoothed), green |-> Some(smoothed) ]

\* Lines 259-305: map matching of one GGA line.  d holds the locals buffer,
\* last_display_coord and network_loaded; osm is what osmnx does.  Every
\* exception ends the iteration (except: continue): one raised by
\* graph_from_point, called only while the network is not loaded, leaves the
\* locals as they were; one raised after line 269 leaves network_loaded set.
MapMatch(d, line, osm) ==
    LET same == [ buffer |-> d.buffer, last_display_coord |-> d.last_display_coord,
                  network_loaded |-> d.network_loaded, green |-> None ]
    IN IF ~line.ok THEN same
       ELSE IF ~(line.qual > 0) THEN same
       ELSE IF line.pos = 0 \/ line.lon = 0 THEN same
       ELSE IF ~d.network_loaded /\ osm = "graph_raises" THEN same
       ELSE IF osm = "edges_raise"
       THEN [ buffer |-> d.buffer, last_display_coord |-> d.last_display_coord,
              network_loaded |-> TRUE, green |-> None ]
       ELSE LET buf == BufferAppend(d.buffer, Snap(line.pos))
            IN IF Len(buf) >= 2
               THEN LET v == Display(d.last_display_coord, Smoothed(buf))
                    IN [ buffer |-> buf, last_display_coord |-> v.last_display_coord,
                         network_loaded |-> TRUE, green |-> v.green ]
               ELSE [ buffer |-> buf, last_display_coord |-> d.last_display_coord,
                      network_loaded |-> TRUE, green |-> None ]

\* Lines 251-252 and 312-313: the test that guards the switch.
Switch_NoGrace(spoof, mode, t) == spoof /\ ~mode
Switch_WrongDuration(spoof, mode, t) ==
    spoof /\ ~mode /\ t - start_time > SNR_STABILIZATION_DURATION
Switch(spoof, mode, t) ==
    spoof /\ ~mode /\ t - start_time > STABILIZATION_DURATION

\* Lines 254 and 317: socketio.emit('alert') sits inside that test.
EmitsAlert_OnEveryVerdict(spoof, mode, t) == spoof
EmitsAlert(spoof, mode, t) == Switch(spoof, mode, t)

\* ------------------------------------------------------------ inputs of the reader
\* What the receiver sends in a run of gps_reader.  Three environments are
\* used, each a set of GGA lines and a set of GSV sentences.
\*
\* Arbitration: fixes 40 m apart at two timestamps (still, or a 40 m/s jump),
\* a no-fix line and a malformed line; PRNs 1-4 at 30 and at 40 dB-Hz (an SNR
\* jump of 10) and a sentence without satellites.  Both detectors can confirm.
ArbGGALines ==
    { Fix(1, p, Some(t)) : p \in {100, 140}, t \in {0, 1} } \cup { NoFixLine, Malformed }
ArbGSVLines ==
    { << <<1, 30>>, <<2, 30>>, <<3, 30>>, <<4, 30>> >>,
      << <<1, 40>>, <<2, 40>>, <<3, 40>>, <<4, 40>> >>,
      << >> }

\* Scenario: a receiver that stamps its fixes 0, 1, 2, ... (one fix a second,
\* up to MaxStamp) at positions 50 m apart; stamp is the next timestamp.  No
\* satellite is reported.
ScenGGALines(stamp) ==
    { Fix(1, p, Some(stamp)) : p \in { q \in {100, 150} : stamp <= MaxStamp } }
    \cup { NoFixLine }
ScenGSVLines == { << >> }

\* Display: fixes on the street and at the far end of the road, at latitude
\* 0 and at longitude 0; one timestamp (the speed detector sees no jump); the
\* SNR detector can confirm.
DispGGALines ==
    { Fix(1, p, Some(0)) : p \in {0, 100, 400} }
    \cup { FixAt(1, 100, 0, Some(0)), NoFixLine, Malformed }
DispGSVLines ==
    { << <<1, 30>>, <<2, 30>>, <<3, 30>>, <<4, 30>> >>,
      << <<1, 40>>, <<2, 40>>, <<3, 40>>, <<4, 40>> >> }

\* Delay between start_time (line 31) and SNRDetector() (line 38).
StartDelays == {0, 1}

\* ------------------------------------------------------------ state
VARIABLES
    now,                 \* wall clock, seconds since start_time
    pc,                  \* where gps_thread is: open, loop, returned, autonomous, done
    speed_detector,      \* the SpeedDetector object
    speed_ret,           \* what the last call of process returned
    snr_detector,        \* the SNRDetector object
    snr_ret,             \* what the last call of process_gsv_for_snr returned
    autonomous_mode,     \* the global flag (Mode): FALSE Tracking, TRUE Fallback
    display,             \* gps_reader's locals buffer, last_display_coord, network_loaded
    last_coord,          \* what gps_reader returned to gps_thread
    route,               \* points of the autonomous route still to emit
    emitted,             \* Socket.IO events sent so far
    hist                 \* history of the fix stream, for the properties

vars == << now, pc, speed_detector, speed_ret, snr_detector, snr_ret,
           autonomous_mode, display, last_coord, route, emitted, hist >>

NoRet == [ status |-> "NONE", value |-> None, detected |-> FALSE ]
NoSnrRet == [ status |-> "NONE", causes |-> << >>, detected |-> FALSE ]

\* Counters of events saturate at 2 ("more than one").
Bump(n) == IF n < 2 THEN n + 1 ELSE n

\* ------------------------------------------------------------ history of the fix stream
Broken == STABILIZATION_COUNT + 2

HistInit(on) ==
    [ on |-> on,               \* what is recorded: "off", "calls" or "fixes"
      only_nofix |-> TRUE,     \* every call so far was on a quality-0 fix
      n_anomaly |-> 0,         \* calls that returned SPEED_ANOMALY
      n_confirmed |-> 0,       \* calls that returned SPOOFING_CONFIRMED
      slow_after_trigger |-> 0,\* fixes since the trigger with speed < STABILIZATION_SPEED
      prev_fix |-> None,       \* the last fix with quality > 0: <<position, timestamp>>
      scen |-> 0 ]             \* progress of the jump-then-slow scenario

Accepted(line) == line.ok /\ line.qual > 0

\* Speed between the previous fix and this one (consecutive fixes), when both
\* carry a timestamp and the timestamps are ordered.
Consecutive(h, line) ==
    /\ Accepted(line) /\ line.ts # None
    /\ h.prev_fix # None /\ h.prev_fix[1][2] # None
    /\ line.ts[1] - h.prev_fix[1][2][1] > 0
FixDist(h, line) == Geodesic(PositionOf(line), h.prev_fix[1][1])
FixDt(h, line) == line.ts[1] - h.prev_fix[1][2][1]

\* The scenario: with the detector stabilized, no suspicion yet and the grace
\* period over, one fix that jumps (speed between consecutive fixes above
\* SPOOFING_SPEED_THRESHOLD over more than DISTANCE_JUMP_THRESHOLD), then
\* STABILIZATION_COUNT fixes slower than STABILIZATION_SPEED.  scen = 1 after
\* the jump, 1 + k after k slow fixes, Broken once the sequence departs.
ScenAfter(h, self, line, t) ==
    IF ~Accepted(line) THEN h.scen
    ELSE IF h.scen = 0
    THEN IF /\ self.stabilized /\ ~self.spoofing_phase
            /\ t - start_time > STABILIZATION_DURATION
            /\ Consecutive(h, line)
            /\ LenGt(FixDist(h, line), SPOOFING_SPEED_THRESHOLD * FixDt(h, line))
            /\ LenGt(FixDist(h, line), DISTANCE_JUMP_THRESHOLD)
         THEN 1 ELSE 0
    ELSE IF h.scen <= STABILIZATION_COUNT
    THEN IF Consecutive(h, line)
            /\ LenLt(FixDist(h, line), STABILIZATION_SPEED * FixDt(h, line))
         THEN h.scen + 1 ELSE Broken
    ELSE Broken

\* The speed process computes for this fix against its stored reference;
\* None when it computes none.
ComputedSpeed(self, line, t) ==
    IF Accepted(line) /\ self.last_position # None
       /\ ~CurrentTime(self.last_time, line.ts, t).raises
    THEN Some(SpeedOf(Geodesic(self.last_position[1], PositionOf(line)),
                      CurrentTime(self.last_time, line.ts, t).dt))
    ELSE None

HistAfter(h, self, line, t, ret) ==
    IF h.on = "off" THEN h ELSE
    [ on |-> h.on,
      only_nofix |-> h.only_nofix /\ line.ok /\ line.qual = 0,
      n_anomaly |-> IF ret.status = "SPEED_ANOMALY" THEN Bump(h.n_anomaly)
                    ELSE h.n_anomaly,
      n_confirmed |-> IF ret.status = "SPOOFING_CONFIRMED" THEN Bump(h.n_confirmed)
                      ELSE h.n_confirmed,
      slow_after_trigger |->
          IF /\ self.spoofing_phase
             /\ ComputedSpeed(self, line, t) # None
             /\ SpeedLt(ComputedSpeed(self, line, t)[1], STABILIZATION_SPEED)
             /\ h.slow_after_trigger <= STABILIZATION_COUNT
          THEN h.slow_after_trigger + 1 ELSE h.slow_after_trigger,
      prev_fix |-> IF h.on = "fixes" /\ Accepted(line)
                   THEN Some(<< PositionOf(line), line.ts >>) ELSE h.prev_fix,
      scen |-> IF h.on = "fixes" THEN ScenAfter(h, self, line, t) ELSE h.scen ]

\* One call speed_detector.process(line); r is what the call gives.
SpeedCall(line) ==
    \E r \in { process(speed_detector, line, now) } :
        /\ speed_detector' = r.self
        /\ speed_ret' = r.ret
        /\ hist' = HistAfter(hist, speed_detector, line, now, r.ret)

\* ------------------------------------------------------------ SpeedDetector alone
InitCommon ==
    /\ now = 0
    /\ speed_detector = SpeedDetectorInit
    /\ speed_ret = NoRet
    /\ snr_ret = NoSnrRet
    /\ autonomous_mode = FALSE
    /\ display = [ buffer |-> << >>, last_display_coord |-> None,
                   network_loaded |-> FALSE ]
    /\ last_coord = None
    /\ route = 0
    /\ emitted = [ alert |-> 0, autonomous |-> 0, blue |-> 0, last_green |-> None ]

InitSpeed ==
    /\ InitCommon
    /\ hist = HistInit("calls")
    /\ pc = "detector"
    /\ snr_detector = SNRDetectorInit(0)

Tick ==
    /\ now + ClockStep <= MaxClock
    /\ now' = now + ClockStep
    /\ UNCHANGED << pc, speed_detector, speed_ret, snr_detector, snr_ret,
                    autonomous_mode, display, last_coord, route, emitted, hist >>

Process(line) ==
    /\ pc = "detector"
    /\ SpeedCall(line)
    /\ UNCHANGED << now, pc, snr_detector, snr_ret, autonomous_mode, display,
                    last_coord, route, emitted >>

NextSpeed == Tick \/ \E line \in GGALines : Process(line)

SpecSpeed == InitSpeed /\ [][NextSpeed]_vars

\* ------------------------------------------------------------ SpeedDetector, call by call
\* The detector taken alone, with the last call kept for the properties: the
\* line it was given, the detector as it was before the call and the clock
\* it could read.
CallHistInit ==
    [ called |-> FALSE, line |-> NoFixLine, before |-> SpeedDetectorInit, at |-> 0 ]

InitCall ==
    /\ InitCommon
    /\ hist = CallHistInit
    /\ pc = "detector"
    /\ snr_detector = SNRDetectorInit(0)

ProcessCall(line) ==
    /\ pc = "detector"
    /\ \E r \in { process(speed_detector, line, now) } :
          speed_detector' = r.self /\ speed_ret' = r.ret
    /\ hist' = [ called |-> TRUE, line |-> line, before |-> speed_detector, at |-> now ]
    /\ UNCHANGED << now, pc, snr_detector, snr_ret, autonomous_mode, display,
                    last_coord, route, emitted >>

NextCall == Tick \/ \E line \in GGALines : ProcessCall(line)

SpecCall == InitCall /\ [][NextCall]_vars

\* ------------------------------------------------------------ SNRDetector alone
\* Sentences for the detector taken alone: PRNs 1-4 at 30, 40 (an SNR jump of
\* 10) and 10 dB-Hz (below SNR_MIN_THRESHOLD), PRNs 5-8 at 30, three of them,
\* PRNs 9-12 at 30, a sentence with an empty PRN field, an empty
\* SNR field and an SNR field float() rejects, a sentence without satellites
\* and one pynmea2 rejects.
SnrLines ==
    { << <<1, 30>>, <<2, 30>>, <<3, 30>>, <<4, 30>> >>,
      << <<1, 40>>, <<2, 40>>, <<3, 40>>, <<4, 40>> >>,
      << <<1, 10>>, <<2, 10>>, <<3, 10>>, <<4, 10>> >>,
      << <<5, 30>>, <<6, 30>>, <<7, 30>>, <<8, 30>> >>,
      << <<5, 30>>, <<6, 30>>, <<7, 30>> >>,
      << <<9, 30>>, <<10, 30>>, <<11, 30>>, <<12, 30>> >>,
      << <<0, 30>>, <<9, 30>>, <<10, NoSnr>>, <<11, BadSnr>> >>,
      << >>,
      ParseFails }

\* Calls are followed up to an anomaly streak of MaxStreak.
MaxStreak == 3

\* One call snr_detector.process_gsv_for_snr(line).
SnrCall(slots) ==
    \E r \in { process_gsv_for_snr(snr_detector, slots, now) } :
        /\ snr_detector' = r.self
        /\ snr_ret' = r.ret

\* The last call, for the properties: the sentence it was given, the
\* detector as it was before the call and whether the call was made during
\* the warm-up.
SnrHistInit ==
    [ called |-> FALSE, line |-> << >>, before |-> SNRDetectorInit(0), warm |-> TRUE ]

InitSnr ==
    /\ InitCommon
    /\ hist = SnrHistInit
    /\ pc = "snr"
    /\ snr_detector = SNRDetectorInit(0)

ProcessGsv(slots) ==
    /\ pc = "snr"
    /\ snr_detector.anomaly_counter < MaxStreak
    /\ SnrCall(slots)
    /\ hist' = [ called |-> TRUE, line |-> slots, before |-> snr_detector,
                 warm |-> now - snr_detector.stabilization_start_time
                          < SNR_STABILIZATION_DURATION ]
    /\ UNCHANGED << now, pc, speed_detector, speed_ret, autonomous_mode, display,
                    last_coord, route, emitted >>

NextSnr == Tick \/ \E slots \in SnrLines : ProcessGsv(slots)

SpecSnr == InitSnr /\ [][NextSnr]_vars

\* ------------------------------------------------------------ SNRDetector, GSV cycles
\* A receiver that reports its constellation in cycles of CycleLength GSV
\* sentences (message 1 of 2, message 2 of 2), one call each: PRNs 1-4 and
\* PRN 5, or PRNs 6-9 and PRN 10, all at 30 dB-Hz.
CycleLength == 2
CycleLines ==
    { << <<1, 30>>, <<2, 30>>, <<3, 30>>, <<4, 30>> >>,
      << <<5, 30>> >>,
      << <<6, 30>>, <<7, 30>>, <<8, 30>>, <<9, 30>> >>,
      << <<10, 30>> >> }

\* The cycles handled after the warm-up: how many sentences of the current
\* cycle were handled, the reliable PRNs it reported so far, those of the
\* previous cycle, and whether the last call completed a cycle that lost
\* and gained INSTANT_SHOCK_THRESHOLD reliable PRNs or more.
CycleHistInit ==
    [ half |-> 0, cyc |-> EmptyDict, prev_cyc |-> EmptyDict, due |-> FALSE ]

CycleHistAfter(h, slots, warm) ==
    IF warm THEN h
    ELSE LET cyc == FoldSlots(EmptyDict, h.cyc, slots).filtered_sats
         IN IF h.half + 1 < CycleLength
            THEN [ half |-> h.half + 1, cyc |-> cyc, prev_cyc |-> h.prev_cyc,
                   due |-> FALSE ]
            ELSE [ half |-> 0, cyc |-> EmptyDict, prev_cyc |-> cyc,
                   due |-> /\ h.prev_cyc # EmptyDict
                           /\ Cardinality((DOMAIN cyc) \ (DOMAIN h.prev_cyc))
                                 >= INSTANT_SHOCK_THRESHOLD
                           /\ Cardinality((DOMAIN h.prev_cyc) \ (DOMAIN cyc))
                                 >= INSTANT_SHOCK_THRESHOLD ]

InitCycle ==
    /\ InitCommon
    /\ hist = CycleHistInit
    /\ pc = "snr"
    /\ snr_detector = SNRDetectorInit(0)

ProcessCycle(slots) ==
    /\ pc = "snr"
    /\ SnrCall(slots)
    /\ hist' = CycleHistAfter(hist, slots,
                              now - snr_detector.stabilization_start_time
                              < SNR_STABILIZATION_DURATION)
    /\ UNCHANGED << now, pc, speed_detector, speed_ret, autonomous_mode, display,
                    last_coord, route, emitted >>

NextCycle == Tick \/ \E slots \in CycleLines : ProcessCycle(slots)

SpecCycle == InitCycle /\ [][NextCycle]_vars

\* ------------------------------------------------------------ compare_sat_data alone
\* The comparison applied to two filtered states drawn from every PRN -> SNR
\* dict over ComparePrns and CompareSnrs.  The SNR values put the difference
\* below, at and above both thresholds of line 63: the absolute one governs
\* up to 24 dB-Hz, the relative one (a quarter of the previous SNR) above.
ComparePrns == {1, 2}
CompareSnrs == {8, 13, 24, 30, 32, 39, 40}
CompareDicts == UNION { [ S -> CompareSnrs ] : S \in SUBSET ComparePrns }
NoComparison == [ causes |-> << >>, spoof_now |-> FALSE ]

InitCompare ==
    /\ InitCommon
    /\ pc = "compare"
    /\ snr_detector = SNRDetectorInit(0)
    /\ \E prev \in CompareDicts, curr \in CompareDicts :
          hist = [ applied |-> FALSE, prev |-> prev, curr |-> curr,
                   out |-> NoComparison ]

ApplyCompare ==
    /\ pc = "compare"
    /\ ~hist.applied
    /\ hist' = [ hist EXCEPT !.applied = TRUE,
                             !.out = compare_sat_data(hist.prev, hist.curr) ]
    /\ UNCHANGED << now, pc, speed_detector, speed_ret, snr_detector, snr_ret,
                    autonomous_mode, display, last_coord, route, emitted >>

NextCompare == ApplyCompare

SpecCompare == InitCompare /\ [][NextCompare]_vars

\* ------------------------------------------------------------ gps_reader, gps_thread
InitReader(delays) ==
    /\ InitCommon
    /\ pc = "open"
    /\ \E d \in delays : snr_detector = SNRDetectorInit(start_time + d)

Init == InitReader(StartDelays) /\ hist = HistInit("off")
InitRecording == InitReader({0}) /\ hist = HistInit("fixes")

\* Line 240: serial.Serial(...) succeeds.
OpenSerial ==
    /\ pc = "open"
    /\ pc' = "loop"
    /\ UNCHANGED << now, speed_detector, speed_ret, snr_detector, snr_ret,
                    autonomous_mode, display, last_coord, route, emitted, hist >>

\* Lines 240, 244, 321-324: the serial port raises; gps_reader prints the
\* error and returns last_display_coord.
TransportError ==
    /\ pc \in {"open", "loop"}
    /\ pc' = "returned"
    /\ last_coord' = display.last_display_coord
    /\ UNCHANGED << now, speed_detector, speed_ret, snr_detector, snr_ret,
                    autonomous_mode, display, route, emitted, hist >>

\* Lines 247-305: one GGA line.  spoof is the flag the call of process has
\* just returned (line 248), m the outcome of the map matching.
GGAStep(line, osm) ==
    /\ pc = "loop"
    /\ SpeedCall(line)
    /\ \E spoof \in { speed_ret'.detected }, m \in { MapMatch(display, line, osm) } :
          IF Switch(spoof, autonomous_mode, now)
          THEN /\ autonomous_mode' = TRUE
               /\ pc' = "returned"
               /\ last_coord' = display.last_display_coord
               /\ emitted' = [ emitted EXCEPT !.alert =
                                 IF EmitsAlert(spoof, autonomous_mode, now)
                                 THEN Bump(@) ELSE @ ]
               /\ UNCHANGED display
          ELSE /\ display' = [ buffer |-> m.buffer,
                               last_display_coord |-> m.last_display_coord,
                               network_loaded |-> m.network_loaded ]
               /\ emitted' = [ emitted EXCEPT
                                 !.alert = IF EmitsAlert(spoof, autonomous_mode, now)
                                           THEN Bump(@) ELSE @,
                                 !.last_green = IF m.green # None THEN m.green ELSE @ ]
               /\ UNCHANGED << autonomous_mode, pc, last_coord >>
    /\ UNCHANGED << now, snr_detector, snr_ret, route >>

\* A GSV line whose handling also rebuilds the speed detector.
GSVStep_ResetsSpeed(slots) ==
    /\ pc = "loop"
    /\ LET r == process_gsv_for_snr(snr_detector, slots, now)
       IN /\ snr_detector' = r.self
          /\ snr_ret' = r.ret
    /\ speed_detector' = SpeedDetectorInit
    /\ UNCHANGED << now, pc, speed_ret, autonomous_mode, last_coord, emitted,
                    display, route, hist >>

\* Lines 308-319: one GSV line.
GSVStep(slots) ==
    /\ pc = "loop"
    /\ \E r \in { process_gsv_for_snr(snr_detector, slots, now) } :
       LET spoof == r.ret.detected
       IN /\ snr_detector' = r.self
          /\ snr_ret' = r.ret
          /\ emitted' = [ emitted EXCEPT !.alert =
                            IF EmitsAlert(spoof, autonomous_mode, now)
                            THEN Bump(@) ELSE @ ]
          /\ IF Switch(spoof, autonomous_mode, now)
             THEN /\ autonomous_mode' = TRUE
                  /\ pc' = "returned"
                  /\ last_coord' = display.last_display_coord
             ELSE UNCHANGED << autonomous_mode, pc, last_coord >>
    /\ UNCHANGED << now, speed_detector, speed_ret, display, route, hist >>

\* Lines 247, 308: a line that is neither GGA nor GSV is dropped.
OtherLine ==
    /\ pc = "loop"
    /\ UNCHANGED vars

\* A gps_thread that starts the autonomous movement whenever gps_reader
\* returned a coordinate.
ThreadAfterReader_IgnoresMode ==
    /\ pc = "returned"
    /\ IF last_coord # None
       THEN /\ emitted' = [ emitted EXCEPT !.autonomous = Bump(@) ]
            /\ \E n \in 0..MaxRoute : route' = n
            /\ pc' = "autonomous"
       ELSE /\ pc' = "done"
            /\ UNCHANGED << emitted, route >>
    /\ UNCHANGED << now, speed_detector, speed_ret, snr_detector, snr_ret,
                    autonomous_mode, display, last_coord, hist >>

\* A gps_thread that starts the autonomous movement without a coordinate.
ThreadAfterReader_IgnoresCoord ==
    /\ pc = "returned"
    /\ IF autonomous_mode
       THEN /\ emitted' = [ emitted EXCEPT !.autonomous = Bump(@) ]
            /\ \E n \in 0..MaxRoute : route' = n
            /\ pc' = "autonomous"
       ELSE /\ pc' = "done"
            /\ UNCHANGED << emitted, route >>
    /\ UNCHANGED << now, speed_detector, speed_ret, snr_detector, snr_ret,
                    autonomous_mode, display, last_coord, hist >>

\* Lines 328-330 and 215-217: gps_thread after gps_reader returned; the route
\* generate_autonomous_path returns has n points (0 when it fails).
ThreadAfterReader ==
    /\ pc = "returned"
    /\ IF autonomous_mode /\ last_coord # None
       THEN /\ emitted' = [ emitted EXCEPT !.autonomous = Bump(@) ]
            /\ \E n \in 0..MaxRoute : route' = n
            /\ pc' = "autonomous"
       ELSE /\ pc' = "done"
            /\ UNCHANGED << emitted, route >>
    /\ UNCHANGED << now, speed_detector, speed_ret, snr_detector, snr_ret,
                    autonomous_mode, display, last_coord, hist >>

\* Lines 219-221: one blue point of the route.
AutonomousStep ==
    /\ pc = "autonomous"
    /\ route > 0
    /\ route' = route - 1
    /\ emitted' = [ emitted EXCEPT !.blue = @ + 1 ]
    /\ UNCHANGED << now, pc, speed_detector, speed_ret, snr_detector, snr_ret,
                    autonomous_mode, display, last_coord, hist >>

\* Line 222: the route is finished; autonomous_mode is left as it is.
FinishRoute_ResetsMode ==
    /\ pc = "autonomous"
    /\ route = 0
    /\ pc' = "done"
    /\ autonomous_mode' = FALSE
    /\ UNCHANGED << now, speed_detector, speed_ret, snr_detector, snr_ret,
                    display, last_coord, route, emitted, hist >>
FinishRoute ==
    /\ pc = "autonomous"
    /\ route = 0
    /\ pc' = "done"
    /\ UNCHANGED << now, speed_detector, speed_ret, snr_detector, snr_ret,
                    autonomous_mode, display, last_coord, route, emitted, hist >>

\* gps_thread in an environment sending the GGA lines gga and GSV sentences gsv.
Run(gga, gsv) ==
    \/ Tick
    \/ OpenSerial
    \/ TransportError
    \/ \E line \in gga, osm \in OsmOutcomes : GGAStep(line, osm)
    \/ \E slots \in gsv : GSVStep(slots)
    \/ OtherLine
    \/ ThreadAfterReader
    \/ AutonomousStep
    \/ FinishRoute

Next == Run(ArbGGALines, ArbGSVLines)
Spec == Init /\ [][Next]_vars

\* The timestamp after that of the last fix.
NextStamp ==
    IF hist.prev_fix = None THEN 0 ELSE hist.prev_fix[1][2][1] + 1

NextScenario == Run(ScenGGALines(NextStamp), ScenGSVLines)
SpecScenario == InitRecording /\ [][NextScenario]_vars

NextDisplay == Run(DispGGALines, DispGSVLines)
SpecDisplay == InitRecording /\ [][NextDisplay]_vars

\* ------------------------------------------------------------ properties
\* A coordinate of the display (a fraction) is the position p.
AtPosition(coord, p) == coord # None /\ coord[1][1] = p * coord[1][2]
\* A displayed coordinate is at a position: on the road's meridian, at its latitude.
AtFix(coord, position) == position[2] = TrackLon /\ AtPosition(coord, position[1])

Elapsed == now - start_time

\* C1: once autonomous_mode (Mode) is TRUE (Fallback) no step of the run sets
\* it back to FALSE (Tracking).
C1_ModeMonotonic == [][autonomous_mode => autonomous_mode']_vars

\* Mode is still Fallback after the autonomous route has been played.
C1_Witness == autonomous_mode /\ pc = "done" /\ emitted.blue > 0

\* C2: over a run at most one 'alert' event is emitted, and every change of
\* Mode is the change from Tracking to Fallback made with the first alert, so
\* the transition happens at most once.
C2_AlertAtMostOnce ==
    /\ [](emitted.alert <= 1)
    /\ [][autonomous_mode' # autonomous_mode =>
            (~autonomous_mode /\ emitted.alert = 0 /\ emitted'.alert = 1)]_vars

\* One alert, although both detectors had found anomalies.
C2_Witness ==
    /\ emitted.alert = 1 /\ autonomous_mode
    /\ speed_detector.spoof_confirmed
    /\ snr_detector.anomaly_counter >= 1

\* A step of gps_reader that handles a GGA line, or a GSV sentence.
IsGGAStep == \E line \in ArbGGALines, osm \in OsmOutcomes : GGAStep(line, osm)
IsGSVStep == \E slots \in ArbGSVLines : GSVStep(slots)

\* C3: a step of gps_reader in which either detector returns its confirmed
\* flag while Mode is Tracking and more than STABILIZATION_DURATION seconds
\* have elapsed emits one 'alert', sets Mode to Fallback and returns.
C3_ConfirmedSwitches ==
    [][ ( /\ pc = "loop" /\ ~autonomous_mode
          /\ Elapsed > STABILIZATION_DURATION
          /\ \/ speed_ret'.detected /\ IsGGAStep
             \/ snr_ret'.detected /\ IsGSVStep )
        => ( /\ autonomous_mode'
             /\ emitted'.alert = emitted.alert + 1
             /\ pc' = "returned" ) ]_vars

\* The fix stream switched on its own: no GSV sentence was ever handled.
C3_Witness ==
    /\ autonomous_mode /\ emitted.alert = 1
    /\ speed_ret.detected
    /\ snr_ret.status = "NONE"

\* C4: a step in which a detector returns its confirmed flag while the time
\* elapsed is not greater than STABILIZATION_DURATION leaves Mode Tracking,
\* emits no 'alert' and keeps reading.
C4_GraceSuppresses ==
    [][ ( /\ pc = "loop"
          /\ Elapsed <= STABILIZATION_DURATION
          /\ \/ speed_ret'.detected /\ IsGGAStep
             \/ snr_ret'.detected /\ IsGSVStep )
        => ( /\ ~autonomous_mode'
             /\ emitted'.alert = emitted.alert
             /\ pc' = "loop" ) ]_vars

\* The speed detector confirmed exactly at the end of the grace period.
C4_Witness ==
    /\ speed_ret.status = "SPOOFING_CONFIRMED" /\ speed_ret.detected
    /\ Elapsed = STABILIZATION_DURATION
    /\ ~autonomous_mode /\ emitted.alert = 0 /\ pc = "loop"

\* C5: with the grace period over and the detector stabilized, a jump (speed
\* between consecutive fixes above SPOOFING_SPEED_THRESHOLD over more than
\* DISTANCE_JUMP_THRESHOLD) followed by STABILIZATION_COUNT fixes slower than
\* STABILIZATION_SPEED ends, on the last of them, with the verdict
\* SPOOFING_CONFIRMED, one alert and Mode Fallback.
C5_JumpThenSlowConfirms ==
    hist.scen = STABILIZATION_COUNT + 1 =>
        /\ speed_ret.status = "SPOOFING_CONFIRMED" /\ speed_ret.detected
        /\ autonomous_mode /\ emitted.alert = 1

\* C6 as claimed: at the transition the hand-off position is the position of
\* the last fix with quality > 0.
C6_HandOffIsLastFix ==
    (autonomous_mode /\ hist.prev_fix # None) =>
        AtFix(last_coord, hist.prev_fix[1][1])

\* C6 as amended: at the transition the hand-off position is the coordinate
\* of the last green 'position' event emitted (the smoothed, map-matched
\* last_display_coord), and None when no green position was emitted.
C6_HandOffIsLastDisplayed == autonomous_mode => last_coord = emitted.last_green

\* A hand-off position that was displayed and is not that of the last fix.
C6_Witness ==
    /\ autonomous_mode /\ last_coord # None /\ hist.prev_fix # None
    /\ ~AtFix(last_coord, hist.prev_fix[1][1])

\* A step of the detector taken alone.
NoFixRet == [ status |-> "NO FIX", value |-> None, detected |-> FALSE ]
Speed(line) == ComputedSpeed(speed_detector, line, now)
Dist(line) == Geodesic(speed_detector.last_position[1], PositionOf(line))
Qualifies(line) ==
    /\ Speed(line) # None
    /\ SpeedGt(Speed(line)[1], SPOOFING_SPEED_THRESHOLD)
    /\ LenGt(Dist(line), DISTANCE_JUMP_THRESHOLD)

\* C7: process on a fix with quality 0 returns NO FIX and changes no field
\* of the detector; after calls on quality-0 fixes only, the detector is as
\* constructed (not stabilized, no reference fix).
C7_NoFixLeavesState ==
    /\ [](hist.only_nofix =>
            speed_detector = SpeedDetectorInit /\ speed_ret.status \in {"NONE", "NO FIX"})
    /\ [][ \A line \in GGALines :
              (line.ok /\ line.qual = 0 /\ Process(line))
              => (speed_detector' = speed_detector /\ speed_ret' = NoFixRet) ]_vars

\* NO FIX was returned by a detector that holds a reference and a count.
C7_Witness ==
    /\ speed_ret.status = "NO FIX"
    /\ speed_detector.last_position # None
    /\ speed_detector.stabilization_counter > 0

\* C8: a call returns SPEED_ANOMALY, or sets spoofing_phase, only if the
\* detector was stabilized and the fix has both speed above
\* SPOOFING_SPEED_THRESHOLD and distance above DISTANCE_JUMP_THRESHOLD; the
\* two happen together.
C8_TriggerNeedsBoth ==
    [][ \A line \in GGALines :
          ( /\ \/ speed_ret'.status = "SPEED_ANOMALY"
               \/ speed_detector'.spoofing_phase /\ ~speed_detector.spoofing_phase
            /\ Process(line) )
          => ( /\ speed_detector.stabilized
               /\ Qualifies(line)
               /\ speed_ret'.status = "SPEED_ANOMALY"
               /\ speed_detector'.spoofing_phase ) ]_vars

C8_Witness ==
    /\ speed_ret.status = "SPEED_ANOMALY"
    /\ speed_detector.spoofing_phase /\ ~speed_detector.spoof_confirmed

\* C9: SPEED_ANOMALY is returned at most once in a run: the first qualifying
\* jump of a stabilized detector returns it and sets spoofing_phase, and no
\* call made with spoofing_phase set returns it.
C9_AnomalyOnce ==
    /\ [](hist.n_anomaly <= 1 /\ (hist.n_anomaly = 1 => speed_detector.spoofing_phase))
    /\ [][ \A line \in GGALines :
              /\ ( /\ speed_detector.stabilized /\ ~speed_detector.spoofing_phase
                   /\ Qualifies(line)
                   /\ Process(line) )
                  => ( speed_ret'.status = "SPEED_ANOMALY"
                       /\ speed_detector'.spoofing_phase )
              /\ ( /\ speed_detector.spoofing_phase
                   /\ speed_ret'.status = "SPEED_ANOMALY" )
                  => ~Process(line) ]_vars

\* After the trigger, a second qualifying jump was answered SPOOFING_ANALYSIS.
C9_Witness ==
    /\ hist.n_anomaly = 1
    /\ speed_ret.status = "SPOOFING_ANALYSIS"
    /\ SpeedGt(speed_ret.value, SPOOFING_SPEED_THRESHOLD)
    /\ LenGt(speed_ret.value[1], DISTANCE_JUMP_THRESHOLD)

\* C10: after the trigger and until confirmation, a call that computes a
\* speed returns SPOOFING_CONFIRMED if the fix is the STABILIZATION_COUNT-th
\* since the trigger with speed below STABILIZATION_SPEED, and
\* SPOOFING_ANALYSIS otherwise; SPOOFING_CONFIRMED is returned by no other
\* call, and at most once in a run.  The speed is the one process computes,
\* against its stored reference.
C10_ConfirmedOnCountthSlowFix ==
    /\ [](hist.n_confirmed <= 1)
    /\ [][ \A line \in GGALines :
              /\ ( /\ speed_detector.spoofing_phase /\ ~speed_detector.spoof_confirmed
                   /\ Speed(line) # None
                   /\ Process(line) )
                  => IF /\ SpeedLt(Speed(line)[1], STABILIZATION_SPEED)
                        /\ hist.slow_after_trigger = STABILIZATION_COUNT - 1
                     THEN speed_ret'.status = "SPOOFING_CONFIRMED" /\ speed_ret'.detected
                     ELSE speed_ret'.status = "SPOOFING_ANALYSIS" /\ ~speed_ret'.detected
              /\ ( /\ speed_ret'.status = "SPOOFING_CONFIRMED"
                   /\ speed_ret'.detected
                   /\ Process(line) )
                  => ( /\ speed_detector.spoofing_phase
                       /\ ~speed_detector.spoof_confirmed
                       /\ hist.slow_after_trigger = STABILIZATION_COUNT - 1
                       /\ hist'.slow_after_trigger = STABILIZATION_COUNT ) ]_vars

\* One more slow fix after the confirmation was answered NORMAL.
C10_Witness ==
    /\ hist.n_confirmed = 1 /\ speed_detector.spoof_confirmed
    /\ hist.slow_after_trigger > STABILIZATION_COUNT
    /\ speed_ret.status = "NORMAL"

\* ------------------------------------------------------------ SNRDetector, claims
\* The last call of process_gsv_for_snr: the detector before it, the two
\* filtered sets a comparison is given, and what separates them.
Before == hist.before
PrevSats == Before.previous_avg_sats
CurrSats == snr_detector.filtered_sats
NewPrns == (DOMAIN CurrSats) \ (DOMAIN PrevSats)
LostPrns == (DOMAIN PrevSats) \ (DOMAIN CurrSats)
Jumped == { p \in (DOMAIN CurrSats) \cap (DOMAIN PrevSats) : IsJump(PrevSats[p], CurrSats[p]) }
LastCauses == compare_sat_data(PrevSats, CurrSats).causes

\* The last call went as far as the comparison (lines 110-111).
Compared ==
    /\ hist.called /\ ~hist.warm
    /\ Cardinality(DOMAIN CurrSats) >= MIN_SAT_FOR_ANALYSIS
    /\ PrevSats # EmptyDict

\* C12: in a comparison, NEW_PRNS_THRESHOLD or more PRNs of the current
\* filtered set absent from the previous one give a non-empty cause list and
\* increment anomaly_counter; fewer new PRNs, with no PRN lost and no SNR
\* jump, give an empty cause list and reset anomaly_counter to 0.
C12_NewPrnsAreACause ==
    Compared =>
        /\ Cardinality(NewPrns) >= NEW_PRNS_THRESHOLD
            => ( /\ LastCauses # << >>
                 /\ snr_detector.anomaly_counter = Before.anomaly_counter + 1
                 /\ snr_ret.detected => snr_ret.causes # << >> )
        /\ ( Cardinality(NewPrns) < NEW_PRNS_THRESHOLD /\ LostPrns = {} /\ Jumped = {} )
            => ( /\ LastCauses = << >>
                 /\ snr_detector.anomaly_counter = 0
                 /\ snr_ret.status = "NORMAL" /\ snr_ret.causes = << >> )

\* Four new PRNs were compared and counted; the cycle before had none.
C12_Witness ==
    /\ Compared
    /\ Cardinality(NewPrns) = NEW_PRNS_THRESHOLD
    /\ Before.anomaly_counter = 0 /\ snr_detector.anomaly_counter = 1

\* The sentence of the last call carried no satellite.
NoSatellite(slots) == DOMAIN FoldSlots(EmptyDict, EmptyDict, slots).all_sats = {}

\* C13: after warm-up, a call whose sentence carries no satellite, or that
\* leaves the filtered set equal to the previous cycle's, returns NORMAL, or
\* INSUFFICIENT_SATS when fewer than MIN_SAT_FOR_ANALYSIS reliable PRNs are
\* known, never SPOOFING_DETECTED, and so cannot switch the Mode.
C13_NoNewDataIsNormal ==
    ( /\ hist.called /\ ~hist.warm
      /\ \/ NoSatellite(hist.line)
         \/ CurrSats = PrevSats )
    => /\ snr_ret.status =
            IF Cardinality(DOMAIN CurrSats) < MIN_SAT_FOR_ANALYSIS
            THEN "INSUFFICIENT_SATS" ELSE "NORMAL"
       /\ ~snr_ret.detected /\ snr_ret.causes = << >>
       /\ \A t \in 0..MaxClock : ~Switch(snr_ret.detected, FALSE, t)

\* A sentence without satellites followed an anomalous cycle and was
\* answered NORMAL.
C13_Witness ==
    /\ hist.called /\ ~hist.warm
    /\ hist.line = << >>
    /\ Before.anomaly_counter > 0
    /\ snr_ret.status = "NORMAL"

\* ------------------------------------------------------------ gps_reader, claims
\* C14: a failure of the serial port (open or read) leaves Mode Tracking,
\* emits nothing, and gps_thread then starts no autonomous movement: as long
\* as Mode is Tracking no alert, no 'autonomous' event and no blue position
\* has been emitted, and after the failure gps_thread only ends.
C14_TransportFailureIsNoVerdict ==
    /\ [](~autonomous_mode =>
            /\ emitted.alert = 0 /\ emitted.autonomous = 0 /\ emitted.blue = 0
            /\ pc # "autonomous")
    /\ [][TransportError =>
            /\ ~autonomous_mode /\ ~autonomous_mode'
            /\ emitted' = emitted
            /\ speed_ret' = speed_ret /\ snr_ret' = snr_ret]_vars
    /\ [][(pc = "returned" /\ ~autonomous_mode) =>
            (pc' \in {"returned", "done"} /\ ~autonomous_mode' /\ emitted' = emitted)]_vars

\* gps_thread ended after a failure that came once a position was displayed.
C14_Witness ==
    /\ pc = "done" /\ ~autonomous_mode
    /\ last_coord # None
    /\ emitted.last_green # None

\* C15: handling a GGA line changes no SNRDetector state and handling a GSV
\* line changes no SpeedDetector state; what each detector returns and
\* becomes is a function of its own state, its own line and the clock.
C15_DetectorsIndependent ==
    /\ [][(snr_detector' # snr_detector \/ snr_ret' # snr_ret) => ~IsGGAStep]_vars
    /\ [][(speed_detector' # speed_detector \/ speed_ret' # speed_ret) => ~IsGSVStep]_vars
    /\ [][(speed_detector' # speed_detector \/ speed_ret' # speed_ret) =>
            \E line \in ArbGGALines :
                LET r == process(speed_detector, line, now)
                IN speed_detector' = r.self /\ speed_ret' = r.ret]_vars
    /\ [][(snr_detector' # snr_detector \/ snr_ret' # snr_ret) =>
            \E slots \in ArbGSVLines :
                LET r == process_gsv_for_snr(snr_detector, slots, now)
                IN snr_detector' = r.self /\ snr_ret' = r.ret]_vars

\* Both streams were handled, interleaved: each detector has left its
\* initial phase.
C15_Witness ==
    /\ speed_detector.stabilized
    /\ snr_detector.previous_avg_sats # EmptyDict
    /\ snr_ret.status = "NORMAL" /\ speed_ret.status = "NORMAL"

\* ------------------------------------------------------------ SpeedDetector, reference
\* The time process takes for a fix: its timestamp, or the wall clock.
TimeOf(line) == CurrentTime(speed_detector.last_time, line.ts, now).current_time

\* C16: after every call of process on a fix with quality > 0 that returns
\* STABILIZING, SPEED_ANOMALY, SPOOFING_ANALYSIS, SPOOFING_CONFIRMED or
\* NORMAL, the stored reference is the position and time of that fix.
C16_ReferenceIsLastFix ==
    [][ \A line \in GGALines :
          ( /\ Accepted(line)
            /\ speed_ret'.status \in { "STABILIZING", "SPEED_ANOMALY", "SPOOFING_ANALYSIS",
                                       "SPOOFING_CONFIRMED", "NORMAL" }
            /\ \/ speed_detector'.last_position # Some(PositionOf(line))
               \/ speed_detector'.last_time # TimeOf(line) )
          => ~Process(line) ]_vars

\* ------------------------------------------------------------ SNRDetector, cycles
\* The filtered set of one cycle taken alone: the PRNs its sentence reports
\* with an SNR at or above SNR_MIN_THRESHOLD, each with its latest SNR.
CycleFiltered(slots) == FoldSlots(EmptyDict, EmptyDict, slots).filtered_sats

\* C17: at every call the filtered set is that of the current cycle: exactly
\* the PRNs this cycle reports at or above SNR_MIN_THRESHOLD.
C17_FilteredIsThisCycle ==
    hist.called => snr_detector.filtered_sats = CycleFiltered(hist.line)

\* C18: when DISAPPEARED_PRNS_THRESHOLD or more PRNs of the previous cycle's
\* filtered set are not reported at or above the floor in the current cycle,
\* the cycle is anomalous: a 'disappeared' cause is produced and
\* anomaly_counter is incremented.
C18_LostPrnsAreACause ==
    ( /\ Compared
      /\ Cardinality(DOMAIN CycleFiltered(hist.line)) >= MIN_SAT_FOR_ANALYSIS
      /\ Cardinality((DOMAIN PrevSats) \ (DOMAIN CycleFiltered(hist.line)))
            >= DISAPPEARED_PRNS_THRESHOLD )
    => /\ \E i \in DOMAIN LastCauses : LastCauses[i].kind = "lost"
       /\ snr_detector.anomaly_counter = Before.anomaly_counter + 1

\* C19 as claimed: after every call, whichever branch is taken,
\* previous_avg_sats equals the current filtered set.
C19_BaselineAlwaysAdvances ==
    hist.called => snr_detector.previous_avg_sats = snr_detector.filtered_sats

\* C19 as amended: after a call that returns NORMAL or SPOOFING_DETECTED,
\* previous_avg_sats equals the current filtered set, on an alert cycle too;
\* after a call that returns STABILIZING or INSUFFICIENT_SATS it is what it
\* was before the call.
C19_BaselineAdvancesOnAnalysis ==
    hist.called =>
        IF snr_ret.status \in {"NORMAL", "SPOOFING_DETECTED"}
        THEN snr_detector.previous_avg_sats = snr_detector.filtered_sats
        ELSE /\ snr_ret.status \in {"STABILIZING", "INSUFFICIENT_SATS"}
             /\ snr_detector.previous_avg_sats = Before.previous_avg_sats

\* An alert cycle moved the baseline to the set that raised the alert.
C19_Witness ==
    /\ hist.called
    /\ snr_ret.status = "SPOOFING_DETECTED"
    /\ snr_detector.previous_avg_sats = snr_detector.filtered_sats
    /\ snr_detector.previous_avg_sats # Before.previous_avg_sats

\* What a comparison finds, from the two sets.
AnyCause ==
    \/ Cardinality(NewPrns) >= NEW_PRNS_THRESHOLD
    \/ Cardinality(LostPrns) >= DISAPPEARED_PRNS_THRESHOLD
    \/ Jumped # {}
InstantShock ==
    /\ Cardinality(NewPrns) >= INSTANT_SHOCK_THRESHOLD
    /\ Cardinality(LostPrns) >= INSTANT_SHOCK_THRESHOLD

\* C20: a call that compares increments anomaly_counter if a cause was found
\* and resets it to 0 otherwise, and returns SPOOFING_DETECTED iff the
\* counter is then at least ANOMALY_CONFIRMATION_COUNT or the instant shock
\* is set, NORMAL otherwise; so an anomalous cycle after a clean one, without
\* instant shock, returns NORMAL.
C20_StreakDecides ==
    Compared =>
        /\ snr_detector.anomaly_counter =
              IF AnyCause THEN Before.anomaly_counter + 1 ELSE 0
        /\ snr_ret.status =
              IF snr_detector.anomaly_counter >= ANOMALY_CONFIRMATION_COUNT \/ InstantShock
              THEN "SPOOFING_DETECTED" ELSE "NORMAL"
        /\ snr_ret.detected <=> snr_ret.status = "SPOOFING_DETECTED"
        /\ (Before.anomaly_counter = 0 /\ ~InstantShock) => snr_ret.status = "NORMAL"

\* The second anomalous cycle in a row was answered SPOOFING_DETECTED.
C20_Witness ==
    /\ Compared /\ AnyCause
    /\ Before.anomaly_counter = ANOMALY_CONFIRMATION_COUNT - 1
    /\ snr_ret.status = "SPOOFING_DETECTED"

\* C11: a call in which INSTANT_SHOCK_THRESHOLD or more PRNs of the previous
\* cycle's filtered set are no longer reliable and as many new reliable PRNs
\* appear returns SPOOFING_DETECTED, whatever anomaly_counter is.  One call
\* reads the four satellites of one sentence, so the case arises on the call
\* that completes a cycle of several sentences.
C11_ShockConfirmsAtOnce ==
    hist.due => (snr_ret.status = "SPOOFING_DETECTED" /\ snr_ret.detected)

\* C21: while less than STABILIZATION_DURATION has elapsed since the detector
\* was created, a call of process_gsv_for_snr returns STABILIZING with no
\* cause and detected = False, and previous_avg_sats and anomaly_counter are
\* what they were before the call, whatever the sentence holds.
C21_WarmupLeavesComparisonState ==
    ( hist.called /\ hist.warm )
    => /\ snr_ret.status = "STABILIZING"
       /\ snr_ret.causes = << >> /\ ~snr_ret.detected
       /\ snr_detector.previous_avg_sats = Before.previous_avg_sats
       /\ snr_detector.anomaly_counter = Before.anomaly_counter

\* A warm-up call read reliable satellites and was answered STABILIZING.
C21_Witness ==
    /\ hist.called /\ hist.warm
    /\ Cardinality(DOMAIN CurrSats) >= MIN_SAT_FOR_ANALYSIS
    /\ CurrSats # Before.filtered_sats
    /\ snr_ret.status = "STABILIZING"

\* C22: a call made during the warm-up appends the SNR of every known PRN
\* to snr_history.
C22_WarmupPrimesHistory ==
    ( hist.called /\ hist.warm )
    => snr_detector.snr_history =
           update_snr_history(Before.snr_history, snr_detector.all_sats)

\* C23: after the warm-up the call returns INSUFFICIENT_SATS exactly when
\* fewer than MIN_SAT_FOR_ANALYSIS reliable PRNs are known, and then with
\* no cause, detected = False, and anomaly_counter, snr_history and the
\* baseline as they were: nothing was compared.
C23_InsufficientSats ==
    ( hist.called /\ ~hist.warm )
    => /\ snr_ret.status = "INSUFFICIENT_SATS"
            <=> Cardinality(DOMAIN CurrSats) < MIN_SAT_FOR_ANALYSIS
       /\ snr_ret.status = "INSUFFICIENT_SATS"
            => /\ snr_ret.causes = << >> /\ ~snr_ret.detected
               /\ snr_detector.anomaly_counter = Before.anomaly_counter
               /\ snr_detector.snr_history = Before.snr_history
               /\ snr_detector.previous_avg_sats = Before.previous_avg_sats

\* Three reliable satellites were read after the warm-up: too few.
C23_Witness ==
    /\ hist.called /\ ~hist.warm
    /\ Cardinality(DOMAIN CurrSats) = MIN_SAT_FOR_ANALYSIS - 1
    /\ CurrSats # Before.filtered_sats
    /\ snr_ret.status = "INSUFFICIENT_SATS"

\* The last call of SpeedDetector.process: whether it got as far as line 60,
\* and the distance, elapsed time and speed it computed there against the
\* reference the detector held before the call.
CallTime == CurrentTime(Before.last_time, hist.line.ts, hist.at)
CallComputes ==
    /\ hist.called
    /\ hist.line.ok /\ ~NoFix(hist.line)
    /\ ~CallTime.raises
    /\ Before.last_position # None
CallDist == Geodesic(Before.last_position[1], PositionOf(hist.line))
CallSpeed == SpeedOf(CallDist, CallTime.dt)
CallIsSlow == SpeedLt(CallSpeed, STABILIZATION_SPEED)
SpeedStatuses ==
    { "STABILIZING", "SPEED_ANOMALY", "SPOOFING_ANALYSIS", "SPOOFING_CONFIRMED" }

\* C24: stabilization_counter never exceeds STABILIZATION_COUNT and
\* stabilized holds exactly when the counter equals it; stabilized becomes
\* True on the call that takes the counter to STABILIZATION_COUNT, and once
\* it is True no call changes it or the counter.
C24_StabilizedOnce ==
    /\ speed_detector.stabilization_counter <= STABILIZATION_COUNT
    /\ speed_detector.stabilized
         <=> speed_detector.stabilization_counter = STABILIZATION_COUNT
    /\ hist.called =>
         /\ Before.stabilized
              => /\ speed_detector.stabilized
                 /\ speed_detector.stabilization_counter = Before.stabilization_counter
         /\ ( ~Before.stabilized /\ speed_detector.stabilized )
              => /\ Before.stabilization_counter = STABILIZATION_COUNT - 1
                 /\ speed_detector.stabilization_counter = STABILIZATION_COUNT

\* A slow fix arrived after stabilisation and the counter stayed at
\* STABILIZATION_COUNT.
C24_Witness ==
    /\ CallComputes /\ Before.stabilized /\ CallIsSlow
    /\ speed_detector.stabilization_counter = STABILIZATION_COUNT

\* C25: during the stabilising phase a fix whose speed is at or above
\* STABILIZATION_SPEED restarts the count of slow fixes.
C25_FastFixRestartsCount ==
    ( CallComputes /\ ~Before.stabilized /\ ~CallIsSlow )
    => speed_detector.stabilization_counter = 0

\* C26: a call that starts before stabilisation with a reference fix and
\* computes a speed returns STABILIZING with that speed and detected =
\* False, slow or fast, the call that completes the stabilisation included;
\* SPEED_ANOMALY, SPOOFING_ANALYSIS and SPOOFING_CONFIRMED are returned only
\* by calls that started stabilised.
C26_StabilizingUntilStabilized ==
    /\ ( CallComputes /\ ~Before.stabilized )
         => /\ speed_ret.status = "STABILIZING"
            /\ speed_ret.value = CallSpeed
            /\ ~speed_ret.detected
    /\ ( hist.called /\ speed_ret.status \in
               { "SPEED_ANOMALY", "SPOOFING_ANALYSIS", "SPOOFING_CONFIRMED" } )
         => Before.stabilized

\* The call that completed the stabilisation was answered STABILIZING.
C26_Witness ==
    /\ CallComputes /\ ~Before.stabilized
    /\ speed_detector.stabilized
    /\ speed_ret.status = "STABILIZING"

\* C27: spoof_confirmed implies spoofing_phase, spoofing_phase implies
\* stabilized, and no call takes any of the three flags from True to False.
C27_PhasesOnlyAdvance ==
    /\ speed_detector.spoof_confirmed => speed_detector.spoofing_phase
    /\ speed_detector.spoofing_phase => speed_detector.stabilized
    /\ hist.called =>
         /\ Before.stabilized => speed_detector.stabilized
         /\ Before.spoofing_phase => speed_detector.spoofing_phase
         /\ Before.spoof_confirmed => speed_detector.spoof_confirmed

\* The call that confirmed the spoofing: all three flags are set.
C27_Witness ==
    /\ hist.called /\ ~Before.spoof_confirmed
    /\ speed_detector.spoof_confirmed
    /\ speed_ret.status = "SPOOFING_CONFIRMED"

\* C28: a fix of quality > 0 received while no reference is stored becomes
\* the reference, position and time (the time of the sentence, or the wall
\* clock when it has none), and is answered NORMAL with detected = False;
\* counters and phase flags are untouched.
C28_FirstFixIsReference ==
    ( /\ hist.called /\ hist.line.ok /\ hist.line.qual > 0
      /\ Before.last_position = None )
    => /\ speed_detector.last_position = Some(PositionOf(hist.line))
       /\ speed_detector.last_time =
            IF hist.line.ts # None
            THEN << "utc", Combine(hist.line.ts[1], hist.at) >>
            ELSE << "wall", hist.at >>
       /\ speed_ret = [ status |-> "NORMAL", value |-> None, detected |-> FALSE ]
       /\ speed_detector.stabilization_counter = Before.stabilization_counter
       /\ speed_detector.spoofed_stabilization_counter
            = Before.spoofed_stabilization_counter
       /\ speed_detector.stabilized = Before.stabilized
       /\ speed_detector.spoofing_phase = Before.spoofing_phase
       /\ speed_detector.spoof_confirmed = Before.spoof_confirmed

\* The first fix, with a timestamp, was stored.
C28_Witness ==
    /\ hist.called /\ hist.line.ok /\ hist.line.qual > 0
    /\ Before.last_position = None
    /\ hist.line.ts # None
    /\ speed_detector.last_position # None
    /\ speed_detector.last_time # None

\* C29 as stated: when the time of the fix is not later than the time of
\* the reference, dt is taken as 1 and the speed returned is the distance.
C29_UnorderedTakesUnitDt ==
    ( /\ CallComputes /\ CallTime.dt <= 0
      /\ speed_ret.status \in SpeedStatuses )
    => speed_ret.value = << CallDist, 1 >>

\* C29: when the time of the fix is not later than the time of the
\* reference the speed is taken as 0, whatever the distance; dt is 1 only
\* when no reference time is stored; every speed returned is a quotient by
\* a positive dt.
C29_UnorderedTakesZeroSpeed ==
    /\ ( /\ CallComputes /\ CallTime.dt <= 0
         /\ speed_ret.status \in SpeedStatuses )
         => speed_ret.value = << Root(0), 1 >>
    /\ ( hist.called /\ speed_ret.status \in SpeedStatuses )
         => /\ speed_ret.value[2] > 0
            /\ speed_ret.value[2] = 1 => speed_ret.value[1] \in { Root(0), CallDist }
    /\ ( hist.called /\ hist.line.ok /\ Before.last_time = None )
         => CallTime.dt = 1

\* A fix 110 m away carried the timestamp of the reference and was answered
\* with speed 0.
C29_Witness ==
    /\ CallComputes /\ CallTime.dt <= 0
    /\ LenGt(CallDist, DISTANCE_JUMP_THRESHOLD)
    /\ speed_ret.status = "STABILIZING"
    /\ speed_ret.value = << Root(0), 1 >>

\* The time block fails: the sentence has no timestamp and the reference
\* time is a datetime, so the fallback subtraction raises too.
TimeFails ==
    /\ hist.line.ts = None
    /\ Before.last_time # None
    /\ Before.last_time[1] = "utc"

\* C30: every call returns one of the seven verdicts; the verdict is ERROR
\* exactly when the sentence cannot be parsed or, for a fix of quality > 0,
\* the time cannot be computed; ERROR comes with detected = False and the
\* detector as it was before the call.
C30_ErrorLeavesState ==
    hist.called =>
        /\ speed_ret.status \in SpeedStatuses \cup { "NO FIX", "NORMAL", "ERROR" }
        /\ speed_ret.status = "ERROR"
             <=> ( ~hist.line.ok \/ ( hist.line.qual > 0 /\ TimeFails ) )
        /\ speed_ret.status = "ERROR"
             => /\ ~speed_ret.detected
                /\ speed_detector = Before

\* A parsed fix without timestamp met a datetime reference in the middle of
\* the stabilisation and was answered ERROR.
C30_Witness ==
    /\ hist.called /\ hist.line.ok /\ hist.line.qual > 0
    /\ TimeFails
    /\ Before.stabilization_counter > 0
    /\ speed_ret.status = "ERROR"

\* The PRNs a cause list reports as SNR jumps.
JumpsOf(causes) ==
    UNION { causes[i].prns : i \in { j \in DOMAIN causes : causes[j].kind = "jumps" } }
Max(a, b) == IF a >= b THEN a ELSE b

\* C31: compare_sat_data flags as SNR jumps exactly the PRNs present in both
\* states whose |curr - prev| is at least max(SNR_JUMP_THRESHOLD, prev / 4);
\* a PRN present in one state only is never flagged.
C31_JumpCriterion ==
    hist.applied =>
        /\ JumpsOf(hist.out.causes) =
             { p \in (DOMAIN hist.prev) \cap (DOMAIN hist.curr) :
                 4 * Abs(hist.curr[p] - hist.prev[p])
                     >= Max(4 * SNR_JUMP_THRESHOLD, hist.prev[p]) }
        /\ \A p \in JumpsOf(hist.out.causes) :
             p \in DOMAIN hist.prev /\ p \in DOMAIN hist.curr

\* From 32 dB-Hz, PRN 1 went to 40 (8 = a quarter of 32: flagged) and PRN 2
\* to 39 (7: above the absolute threshold, below the relative one).
C31_Witness ==
    /\ hist.applied
    /\ DOMAIN hist.prev = {1, 2} /\ DOMAIN hist.curr = {1, 2}
    /\ hist.prev[1] = 32 /\ hist.curr[1] = 40
    /\ hist.prev[2] = 32 /\ hist.curr[2] = 39
    /\ JumpsOf(hist.out.causes) = {1}

\* The last call of process_gsv_for_snr went past both early returns and
\* updated the history (line 106).
Analysed ==
    /\ hist.called /\ ~hist.warm
    /\ Cardinality(DOMAIN CurrSats) >= MIN_SAT_FOR_ANALYSIS
WindowBefore(p) ==
    IF p \in DOMAIN Before.snr_history THEN Before.snr_history[p] ELSE << >>

\* C32: no PRN's window of snr_history holds more than HISTORY_LENGTH
\* samples; an update appends the SNR of every known PRN to its window, and
\* when the window was full its oldest sample is gone and the others keep
\* their order.
C32_HistoryIsBounded ==
    /\ \A p \in DOMAIN snr_detector.snr_history :
          Len(snr_detector.snr_history[p]) <= HISTORY_LENGTH
    /\ Analysed =>
          \A p \in DOMAIN snr_detector.all_sats :
             /\ p \in DOMAIN snr_detector.snr_history
             /\ snr_detector.snr_history[p] =
                  IF Len(WindowBefore(p)) = HISTORY_LENGTH
                  THEN SubSeq(WindowBefore(p), 2, HISTORY_LENGTH)
                          \o << snr_detector.all_sats[p] >>
                  ELSE WindowBefore(p) \o << snr_detector.all_sats[p] >>

\* A full window with distinct samples lost its oldest one.
C32_Witness ==
    /\ Analysed
    /\ 1 \in DOMAIN Before.snr_history
    /\ Len(Before.snr_history[1]) = HISTORY_LENGTH
    /\ Before.snr_history[1][1] # Before.snr_history[1][2]
    /\ snr_detector.snr_history[1][1] = Before.snr_history[1][2]
    /\ snr_detector.snr_history[1][2] = Before.snr_history[1][3]

\* C33: process returns detected = True only on the call that sets
\* spoof_confirmed, which stays set: at most one such call in a run.  A GGA
\* line therefore changes Mode only on that call, and once spoof_confirmed
\* is set with Mode still Tracking (the call fell in the grace period) no
\* later GGA line changes Mode.
C33_SpeedVerdictOnlyOnce ==
    /\ [][ speed_detector.spoof_confirmed => speed_detector'.spoof_confirmed ]_vars
    /\ [][ ( speed_ret'.detected /\ IsGGAStep )
            => ( ~speed_detector.spoof_confirmed
                 /\ speed_detector'.spoof_confirmed ) ]_vars
    /\ [][ ( autonomous_mode' # autonomous_mode /\ IsGGAStep )
            => ( speed_ret'.detected /\ ~speed_detector.spoof_confirmed ) ]_vars
    /\ [][ ( speed_detector.spoof_confirmed /\ ~autonomous_mode /\ IsGGAStep )
            => ( ~speed_ret'.detected /\ ~autonomous_mode' ) ]_vars

\* The detector confirmed within the grace period; the period is over, a
\* later fix was answered NORMAL and Mode is still Tracking.
C33_Witness ==
    /\ speed_detector.spoof_confirmed
    /\ speed_ret.status = "NORMAL"
    /\ Elapsed > STABILIZATION_DURATION
    /\ ~autonomous_mode /\ emitted.alert = 0 /\ pc = "loop"

\* C34: no call removes a PRN from all_sats or filtered_sats, every PRN of
\* previous_avg_sats is a key of filtered_sats, and so at every comparison
\* the set of lost PRNs is empty.
C34_NothingIsEverLost ==
    /\ DOMAIN snr_detector.previous_avg_sats \subseteq DOMAIN snr_detector.filtered_sats
    /\ DOMAIN snr_detector.filtered_sats \subseteq DOMAIN snr_detector.all_sats
    /\ hist.called =>
         /\ DOMAIN Before.all_sats \subseteq DOMAIN snr_detector.all_sats
         /\ DOMAIN Before.filtered_sats \subseteq DOMAIN snr_detector.filtered_sats
    /\ Compared =>
         /\ LostPrns = {}
         /\ \A i \in DOMAIN LastCauses : LastCauses[i].kind \notin { "lost", "shock" }

\* A sentence reporting none of the four PRNs of the baseline was compared
\* with it: four new PRNs, none lost.
C34_Witness ==
    /\ Compared
    /\ DOMAIN PrevSats = {1, 2, 3, 4}
    /\ DOMAIN CycleFiltered(hist.line) = {5, 6, 7, 8}
    /\ NewPrns = {5, 6, 7, 8}
    /\ LostPrns = {}

\* C35: a SPOOFING_DETECTED verdict of the SNR detector comes at least
\* STABILIZATION_DURATION (60 s) after the detector was created, itself not
\* before start_time, hence after the 30 s grace period of the controller;
\* so a GSV step that receives it while Mode is Tracking always switches.
C35_SnrVerdictIsPastGrace ==
    /\ [] ( snr_ret.detected =>
              /\ snr_detector.stabilization_start_time >= start_time
              /\ now - snr_detector.stabilization_start_time
                    >= SNR_STABILIZATION_DURATION
              /\ Elapsed > STABILIZATION_DURATION )
    /\ [][ ( snr_ret'.detected /\ ~autonomous_mode /\ IsGSVStep )
            => ( /\ autonomous_mode'
                 /\ emitted'.alert = emitted.alert + 1
                 /\ pc' = "returned" ) ]_vars

\* The SNR detector, created at start_time, confirmed as soon as its warm-up
\* ended and the controller switched; the speed detector had found nothing.
C35_Witness ==
    /\ snr_ret.detected /\ snr_ret.status = "SPOOFING_DETECTED"
    /\ now - snr_detector.stabilization_start_time = SNR_STABILIZATION_DURATION
    /\ autonomous_mode /\ emitted.alert = 1
    /\ ~speed_detector.spoofing_phase

\* C36: for every call of process_gsv_for_snr the cause list returned is
\* non-empty exactly when the status is SPOOFING_DETECTED, exactly when
\* detected is True; a comparison that found causes and incremented the
\* streak without concluding returns NORMAL with an empty list.
C36_CausesOnlyWithVerdict ==
    hist.called =>
        /\ snr_ret.status \in
             { "STABILIZING", "INSUFFICIENT_SATS", "NORMAL", "SPOOFING_DETECTED" }
        /\ snr_ret.causes # << >> <=> snr_ret.status = "SPOOFING_DETECTED"
        /\ snr_ret.detected <=> snr_ret.status = "SPOOFING_DETECTED"
        /\ ( Compared /\ snr_ret.status = "SPOOFING_DETECTED" )
             => snr_ret.causes = LastCauses
        /\ ( Compared /\ LastCauses # << >> /\ snr_ret.status = "NORMAL" )
             => /\ snr_ret.causes = << >>
                /\ snr_detector.anomaly_counter = Before.anomaly_counter + 1

\* A comparison found SNR jumps, counted the cycle and returned NORMAL with
\* no cause.
C36_Witness ==
    /\ Compared
    /\ Jumped # {}
    /\ LastCauses # << >>
    /\ snr_detector.anomaly_counter = 1
    /\ snr_ret = [ status |-> "NORMAL", causes |-> << >>, detected |-> FALSE ]

\* C37: the 'autonomous' event and the blue positions are emitted only after
\* the 'alert', with Mode Fallback and a hand-off coordinate returned by
\* gps_reader; once the 'alert' is emitted gps_reader has returned and no
\* green position follows; when the switch comes before any position was
\* displayed the hand-off is null and no autonomous movement is started.
C37_AutonomousOnlyAfterAlert ==
    /\ [] ( ( emitted.autonomous > 0 \/ emitted.blue > 0 \/ pc = "autonomous" )
            => ( /\ emitted.alert >= 1
                 /\ autonomous_mode
                 /\ emitted.autonomous > 0
                 /\ last_coord # None ) )
    /\ [] ( emitted.alert >= 1 => pc \in { "returned", "autonomous", "done" } )
    /\ [][ ( emitted.alert >= 1 \/ emitted'.alert > emitted.alert )
            => emitted'.last_green = emitted.last_green ]_vars
    /\ [] ( ( pc \in { "returned", "autonomous", "done" }
              /\ emitted.last_green = None )
            => ( /\ last_coord = None
                 /\ emitted.autonomous = 0 /\ emitted.blue = 0
                 /\ pc # "autonomous" ) )

\* The switch came before any position was displayed: gps_thread ended in
\* Fallback without starting the autonomous movement.
C37_Witness ==
    /\ autonomous_mode /\ emitted.alert = 1
    /\ emitted.last_green = None /\ last_coord = None
    /\ pc = "done"
    /\ emitted.autonomous = 0 /\ emitted.blue = 0

====
